---- MODULE Spec2Model ----
(***************************************************************************)
(* Game initialization of the Arcium poker front end                       *)
(* (src/src/lib/game/initialize.ts): the parameter validator               *)
(* GameInitializer.validateGameParams and the asynchronous operation       *)
(* GameInitializer.initializeGame, run by concurrent callers against one   *)
(* ledger.                                                                 *)
(***************************************************************************)
EXTENDS Integers, Sequences, FiniteSets, TLC

(***************************************************************************)
(* Values.  A numeric parameter is a JavaScript number or a BN; an omitted *)
(* optional field is undefined.                                            *)
(***************************************************************************)
Undefined == [undefined |-> TRUE]
Null == [null |-> TRUE]
Num(v) == [bn |-> FALSE, val |-> v]
Bn(v) == [bn |-> TRUE, val |-> v]

\* JavaScript truthiness of a number | BN | undefined: a BN is an object and
\* always truthy, a number is truthy unless it is 0.
Truthy(x) == x # Undefined /\ x # Null /\ (x.bn \/ x.val # 0)

\* ensureBN: number | BN -> BN; a BN is modelled by the integer it holds.
ensureBN(x) == x.val

\* BN.prototype.toString: the decimal digits of the value.
BNToString(n) == ToString(n)

(***************************************************************************)
(* Program constants (src/lib/shared/constants.ts).                        *)
(***************************************************************************)
DEFAULT_SMALL_BLIND == 10
DEFAULT_BIG_BLIND == 20
DEFAULT_MIN_BUY_IN == 1000
DEFAULT_MAX_BUY_IN == 10000
DEFAULT_MAX_PLAYERS == 6
MIN_PLAYERS == 2
MAX_PLAYERS == 6
MIN_BUY_IN_BB_MULTIPLIER == 50

(***************************************************************************)
(* validateGameParams (initialize.ts 213-290).                             *)
(***************************************************************************)
NoError == "<undefined>"
Invalid(msg) == [valid |-> FALSE, error |-> msg]
Valid == [valid |-> TRUE, error |-> NoError]

\* Lines 231-235: values with defaults.
SmallBlindOf(p) ==
    IF p.smallBlind # Undefined THEN ensureBN(p.smallBlind) ELSE DEFAULT_SMALL_BLIND
BigBlindOf(p) ==
    IF p.bigBlind # Undefined THEN ensureBN(p.bigBlind) ELSE DEFAULT_BIG_BLIND
MinBuyInOf(p) ==
    IF p.minBuyIn # Undefined THEN ensureBN(p.minBuyIn) ELSE DEFAULT_MIN_BUY_IN
MaxBuyInOf(p) ==
    IF p.maxBuyIn # Undefined THEN ensureBN(p.maxBuyIn) ELSE DEFAULT_MAX_BUY_IN
MaxPlayersOf(p) ==
    IF p.maxPlayers # Undefined /\ p.maxPlayers # Null
    THEN p.maxPlayers.val ELSE DEFAULT_MAX_PLAYERS

\* Line 273.
MinRequiredBuyIn(p) == BigBlindOf(p) * MIN_BUY_IN_BB_MULTIPLIER

\* Line 277: the template string of the buy-in multiplier error.
MultiplierMessage(p) ==
    "Minimum buy-in must be at least " \o ToString(MIN_BUY_IN_BB_MULTIPLIER)
        \o " big blinds (" \o BNToString(MinRequiredBuyIn(p)) \o " chips)"

\* Line 285.
PlayersMessage ==
    "Max players must be between " \o ToString(MIN_PLAYERS) \o " and "
        \o ToString(MAX_PLAYERS)

\* Faulty variant: the blind-ordering test tolerates equal blinds.
BlindOrderViolatedStrict(p) == BigBlindOf(p) < SmallBlindOf(p)
\* Line 245: bigBlind.lte(smallBlind).
BlindOrderViolated(p) == BigBlindOf(p) <= SmallBlindOf(p)

\* Faulty variant: the multiplier test compares against the big blind itself.
BuyInTooSmallNoMultiplier(p) == MinBuyInOf(p) < BigBlindOf(p)
\* Line 274: minBuyIn.lt(minRequiredBuyIn).
BuyInTooSmall(p) == MinBuyInOf(p) < MinRequiredBuyIn(p)

\* Faulty variant: only the lower bound of the player range is tested.
PlayersOutOfRangeLowOnly(p) == MaxPlayersOf(p) < MIN_PLAYERS
\* Line 282.
PlayersOutOfRange(p) ==
    MaxPlayersOf(p) < MIN_PLAYERS \/ MaxPlayersOf(p) > MAX_PLAYERS

\* Faulty variant: the buy-in checks run before the blind checks.
validateGameParamsBuyInFirst(p) ==
    IF ~Truthy(p.gameId) THEN Invalid("Game ID is required")
    ELSE IF ensureBN(p.gameId) <= 0 THEN Invalid("Game ID must be greater than 0")
    ELSE IF MinBuyInOf(p) <= 0 THEN Invalid("Minimum buy-in must be greater than 0")
    ELSE IF MaxBuyInOf(p) <= MinBuyInOf(p)
        THEN Invalid("Maximum buy-in must be greater than minimum buy-in")
    ELSE IF SmallBlindOf(p) <= 0 THEN Invalid("Small blind must be greater than 0")
    ELSE IF BlindOrderViolated(p)
        THEN Invalid("Big blind must be greater than small blind")
    ELSE IF BuyInTooSmall(p) THEN Invalid(MultiplierMessage(p))
    ELSE IF PlayersOutOfRange(p) THEN Invalid(PlayersMessage)
    ELSE Valid

validateGameParams(p) ==
    IF ~Truthy(p.gameId) THEN Invalid("Game ID is required")
    ELSE IF ensureBN(p.gameId) <= 0 THEN Invalid("Game ID must be greater than 0")
    ELSE IF SmallBlindOf(p) <= 0 THEN Invalid("Small blind must be greater than 0")
    ELSE IF BlindOrderViolated(p)
        THEN Invalid("Big blind must be greater than small blind")
    ELSE IF MinBuyInOf(p) <= 0 THEN Invalid("Minimum buy-in must be greater than 0")
    ELSE IF MaxBuyInOf(p) <= MinBuyInOf(p)
        THEN Invalid("Maximum buy-in must be greater than minimum buy-in")
    ELSE IF BuyInTooSmall(p) THEN Invalid(MultiplierMessage(p))
    ELSE IF PlayersOutOfRange(p) THEN Invalid(PlayersMessage)
    ELSE Valid

\* Lines 253-255: console.warn is reached when the checks before it passed
\* and the big blind is not twice the small blind.
ValidateWarns(p) ==
    /\ Truthy(p.gameId)
    /\ ensureBN(p.gameId) > 0
    /\ SmallBlindOf(p) > 0
    /\ ~BlindOrderViolated(p)
    /\ BigBlindOf(p) # SmallBlindOf(p) * 2

(***************************************************************************)
(* initializeGame (initialize.ts 53-205): one asynchronous task per call.  *)
(* Every await is a suspension point; an action below is the settling of   *)
(* the awaited operation together with the code that then runs up to the   *)
(* next await or the return.                                               *)
(***************************************************************************)
VARIABLES
    calls,      \* per call: position, arguments, local variables, result
    accounts,   \* the ledger: the game accounts created so far
    txStatus,   \* the ledger: per call, the fate of its submitted transaction
    vparams,    \* validator harness: the configuration under test
    vresult,    \* validator harness: what validateGameParams returned
    vwarned,    \* validator harness: whether console.warn was reached
    reads       \* per read-path call (gameExists, fetchGame): position, result

vars == <<calls, accounts, txStatus, vparams, vresult, vwarned, reads>>

Calls == {1, 2}
Authorities == {"alice", "bob"}
Blockhashes == {"bh"}

\* The signature the network returns for the transaction of call c.
SigOf(c) == <<"sig", c>>
EmptySignature == <<>>

\* ProgramClient.deriveGamePDA(authority, gameId): deterministic in the pair.
deriveGamePDA(authority, gameId) == <<authority, gameId>>

\* What an awaited operation may raise: an Error with a message (possibly
\* empty) and, for transaction errors, diagnostic log lines.
RaisedErrors ==
    { [poker |-> FALSE, code |-> NoError, message |-> "Network request failed",
       logs |-> <<>>, cause |-> Undefined],
      [poker |-> FALSE, code |-> NoError, message |-> "",
       logs |-> <<"Program log: failed">>, cause |-> Undefined] }

\* new PokerError(code, message, originalError)
PokerError(code, message, original) ==
    [poker |-> TRUE, code |-> code, message |-> message, logs |-> <<>>,
     cause |-> original]

NoResult == [returned |-> FALSE]

\* The state of a call that has not started.  ops, fetched, raised and
\* overlaps record what the call did: the operations it called, the outcomes
\* of its fetch attempts, the error it caught and the calls in flight when
\* it was invoked.
IdleCall ==
    [pc |-> "idle", params |-> Undefined, wallet |-> Undefined,
     blockhash |-> Undefined, txBuilder |-> Undefined, instruction |-> Undefined,
     transaction |-> Undefined, tx |-> Undefined, gamePDA |-> Undefined,
     game |-> Undefined, retries |-> 0, result |-> NoResult,
     ops |-> <<>>, fetched |-> <<>>, raised |-> Undefined, overlaps |-> {}]

\* Faulty variant: the big blind argument is built from the small blind.
InstructionArgsCopiedBlind(p) ==
    [gameId |-> ensureBN(p.gameId),
     smallBlind |-> IF Truthy(p.smallBlind) THEN Bn(ensureBN(p.smallBlind)) ELSE Null,
     bigBlind |-> IF Truthy(p.smallBlind) THEN Bn(ensureBN(p.smallBlind)) ELSE Null,
     minBuyIn |-> IF Truthy(p.minBuyIn) THEN Bn(ensureBN(p.minBuyIn)) ELSE Null,
     maxBuyIn |-> IF Truthy(p.maxBuyIn) THEN Bn(ensureBN(p.maxBuyIn)) ELSE Null,
     maxPlayers |-> IF p.maxPlayers # Undefined /\ p.maxPlayers # Null
                    THEN Num(p.maxPlayers.val) ELSE Null]
\* Lines 99-106: the arguments handed to program.methods.initializeGame: the
\* gameId as a BN, each optional amount as a BN or null, maxPlayers as a
\* number or null.
InstructionArgs(p) ==
    [gameId |-> ensureBN(p.gameId),
     smallBlind |-> IF Truthy(p.smallBlind) THEN Bn(ensureBN(p.smallBlind)) ELSE Null,
     bigBlind |-> IF Truthy(p.bigBlind) THEN Bn(ensureBN(p.bigBlind)) ELSE Null,
     minBuyIn |-> IF Truthy(p.minBuyIn) THEN Bn(ensureBN(p.minBuyIn)) ELSE Null,
     maxBuyIn |-> IF Truthy(p.maxBuyIn) THEN Bn(ensureBN(p.maxBuyIn)) ELSE Null,
     maxPlayers |-> IF p.maxPlayers # Undefined /\ p.maxPlayers # Null
                    THEN Num(p.maxPlayers.val) ELSE Null]

\* Faulty variant: the wrapper drops the original message.
WrapErrorNoMessage(error) ==
    IF error.poker THEN error
    ELSE PokerError("InvalidGameConfig", "Failed to initialize game", error)
\* Lines 198-202: error instanceof PokerError ? error : new PokerError(...).
WrapError(error) ==
    IF error.poker THEN error
    ELSE PokerError("InvalidGameConfig",
                    IF error.message # "" THEN error.message
                    ELSE "Failed to initialize game", error)

\* Lines 195-203: the failure result.
FailureResult(error) ==
    [returned |-> TRUE, signature |-> EmptySignature, success |-> FALSE,
     gamePDA |-> Undefined, gameId |-> Undefined, game |-> Undefined,
     error |-> WrapError(error)]

\* Faulty variant: a failure after the submission reports the signature of the
\* submitted transaction.
CaughtKeepsSignature(k, error) ==
    [k EXCEPT !.pc = "done", !.raised = error,
              !.result = [FailureResult(error) EXCEPT
                  !.signature = IF \E i \in 1..Len(k.ops) :
                                       k.ops[i] = "confirmTransaction"
                                 THEN k.tx ELSE EmptySignature]]
\* Faulty variant: the catch block rethrows what is not a PokerError.
CaughtRethrow(k, error) ==
    IF error.poker
    THEN [k EXCEPT !.pc = "done", !.raised = error, !.result = FailureResult(error)]
    ELSE [k EXCEPT !.pc = "threw", !.raised = error]
\* Lines 180-204: the catch block; k is the call's state when the error is
\* raised, the value is its state after the return.
Caught(k, error) ==
    [k EXCEPT !.pc = "done", !.raised = error, !.result = FailureResult(error)]

\* Lines 173-179: the success result.
SuccessResult(k) ==
    [returned |-> TRUE, signature |-> k.tx, success |-> TRUE,
     gamePDA |-> k.gamePDA, gameId |-> ensureBN(k.params.gameId),
     game |-> k.game, error |-> Undefined]

Returned(k) == [k EXCEPT !.pc = "done", !.result = SuccessResult(k)]

Called(k, op) == [k EXCEPT !.ops = Append(@, op)]

\* Faulty variant: the configuration is not validated before the network is used.
StartNoValidation(k) ==
    [Called(k, "getLatestBlockhash") EXCEPT !.pc = "blockhash"]
\* Lines 57-82: validate, then ask for the latest blockhash.
Start(k) ==
    LET validation == validateGameParams(k.params) IN
    IF ~validation.valid
    THEN Caught(k, PokerError("InvalidGameConfig", validation.error, Undefined))
    ELSE [Called(k, "getLatestBlockhash") EXCEPT !.pc = "blockhash"]

(***************************************************************************)
(* The configurations callers pass to initializeGame.                      *)
(***************************************************************************)
MaxGameId == 2

Config(g, sb, bb, mn, mx, mp) ==
    [gameId |-> g, smallBlind |-> sb, bigBlind |-> bb, minBuyIn |-> mn,
     maxBuyIn |-> mx, maxPlayers |-> mp]

\* Only the gameId supplied: every optional field takes its default.
DefaultsOnly(g) ==
    Config(g, Undefined, Undefined, Undefined, Undefined, Undefined)

CallParams ==
    { DefaultsOnly(Num(g)) : g \in 0..MaxGameId }
    \cup { Config(Num(1), Num(1), Num(2), Num(100), Num(200), Num(2)),
           Config(Bn(0), Num(1), Num(2), Num(100), Num(200), Num(2)),
           Config(Num(1), Num(0), Num(2), Num(100), Num(200), Num(2)),
           Config(Num(1), Num(2), Num(2), Num(100), Num(200), Num(2)),
           Config(Num(1), Num(1), Num(2), Num(99), Num(200), Num(2)),
           Config(Num(1), Num(1), Num(2), Num(100), Num(200), Num(7)) }

(***************************************************************************)
(* The ledger.                                                             *)
(***************************************************************************)
AccountAt(address) == {a \in accounts : a.address = address}

\* The on-chain program processes the transaction of call c: it creates the
\* game account at the address derived from the fee payer and the gameId,
\* and fails when that account already exists.
Land(c) ==
    /\ txStatus[c] = "pending"
    /\ LET k == calls[c]
           address == deriveGamePDA(k.transaction.feePayer,
                                    k.transaction.instruction.args.gameId)
       IN IF AccountAt(address) = {}
          THEN /\ accounts' = accounts \cup
                      {[address |-> address, data |-> k.transaction.instruction]}
               /\ txStatus' = [txStatus EXCEPT ![c] = "ok"]
          ELSE /\ accounts' = accounts
               /\ txStatus' = [txStatus EXCEPT ![c] = "err"]
    /\ UNCHANGED <<calls, vparams, vresult, vwarned, reads>>

(***************************************************************************)
(* The steps of initializeGame.                                            *)
(***************************************************************************)
Harness == <<vparams, vresult, vwarned, reads>>

InFlight == {d \in Calls : calls[d].pc \notin {"idle", "done", "threw"}}

\* A caller invokes initializeGame(params, provider), lines 57-82, with
\* params among ps and the wallet of one of ws.
InvokeWith(c, ps, ws) ==
    /\ calls[c].pc = "idle"
    /\ \E p \in ps, w \in ws :
          LET k == [calls[c] EXCEPT !.params = p, !.wallet = w,
                                    !.overlaps = InFlight \ {c}]
          IN \/ calls' = [calls EXCEPT ![c] = Start(k)]
             \* line 65: ProgramClient.getProgram() throws
             \/ /\ validateGameParams(p).valid
                /\ \E e \in RaisedErrors : calls' = [calls EXCEPT ![c] = Caught(k, e)]
    /\ UNCHANGED <<accounts, txStatus, Harness>>

Invoke(c) == InvokeWith(c, CallParams, Authorities)

\* An awaited operation of call c raises: control passes to the catch block.
Raises(c) ==
    \E e \in RaisedErrors : calls' = [calls EXCEPT ![c] = Caught(@, e)]

\* Line 82 settles; lines 83-118 build the instruction.
BlockhashSettles(c) ==
    /\ calls[c].pc = "blockhash"
    /\ \/ \E h \in Blockhashes :
             LET k == calls[c] IN
             calls' = [calls EXCEPT ![c] =
                [Called(k, "instruction") EXCEPT
                    !.pc = "instruction",
                    !.blockhash = h,
                    !.txBuilder = [args |-> InstructionArgs(k.params),
                                   authority |-> k.wallet]]]
       \/ Raises(c)
    /\ UNCHANGED <<accounts, txStatus, Harness>>

\* Line 118 settles; line 122 imports the Transaction class.
InstructionSettles(c) ==
    /\ calls[c].pc = "instruction"
    /\ \/ LET k == calls[c] IN
          calls' = [calls EXCEPT ![c] =
             [Called(k, "import") EXCEPT !.pc = "import",
                                         !.instruction = k.txBuilder]]
       \/ Raises(c)
    /\ UNCHANGED <<accounts, txStatus, Harness>>

\* Faulty variant: the assembled transaction is sent without being signed.
ImportSettlesUnsigned(c) ==
    /\ calls[c].pc = "import"
    /\ \/ LET k == calls[c] IN
          calls' = [calls EXCEPT ![c] =
             [Called(k, "sendRawTransaction") EXCEPT
                 !.pc = "send",
                 !.transaction = [instruction |-> k.instruction,
                                  recentBlockhash |-> k.blockhash,
                                  feePayer |-> k.wallet]]]
       \/ Raises(c)
    /\ UNCHANGED <<accounts, txStatus, Harness>>
\* Line 122 settles; lines 123-129 assemble the transaction and ask the
\* wallet to sign it.
ImportSettles(c) ==
    /\ calls[c].pc = "import"
    /\ \/ LET k == calls[c] IN
          calls' = [calls EXCEPT ![c] =
             [Called(k, "signTransaction") EXCEPT
                 !.pc = "sign",
                 !.transaction = [instruction |-> k.instruction,
                                  recentBlockhash |-> k.blockhash,
                                  feePayer |-> k.wallet]]]
       \/ Raises(c)
    /\ UNCHANGED <<accounts, txStatus, Harness>>

\* Line 129 settles; line 133 sends the signed transaction.
SignSettles(c) ==
    /\ calls[c].pc = "sign"
    /\ \/ calls' = [calls EXCEPT ![c] =
             [Called(calls[c], "sendRawTransaction") EXCEPT !.pc = "send"]]
       \/ Raises(c)
    /\ UNCHANGED <<accounts, txStatus, Harness>>

\* Line 133 settles: with skipPreflight the node takes the transaction
\* without simulating it and returns its signature; line 141 then waits for
\* the confirmation.
SendSettles(c) ==
    /\ calls[c].pc = "send"
    /\ \/ /\ calls' = [calls EXCEPT ![c] =
                [Called(calls[c], "confirmTransaction") EXCEPT
                    !.pc = "confirm", !.tx = SigOf(c)]]
          /\ txStatus' = [txStatus EXCEPT ![c] = "pending"]
       \/ Raises(c) /\ UNCHANGED txStatus
    /\ UNCHANGED <<accounts, Harness>>

\* Faulty variant: the address is derived once, for the first gameId, and
\* kept in a variable every call shares.
ConfirmedSharedAddress(k) ==
    [Called(Called(k, "deriveGamePDA"), "setTimeout") EXCEPT
        !.pc = "propagate",
        !.gamePDA = deriveGamePDA(k.wallet, 1)]
\* Lines 150-155: derive the address, start the propagation delay.
Confirmed(k) ==
    [Called(Called(k, "deriveGamePDA"), "setTimeout") EXCEPT
        !.pc = "propagate",
        !.gamePDA = deriveGamePDA(k.wallet, ensureBN(k.params.gameId))]

\* Lines 141-146: the value confirmTransaction resolves with, which tells
\* whether the transaction failed on the ledger, is discarded.
AfterConfirm(k, status) == Confirmed(k)

\* Line 141 settles: resolved once the ledger has processed the transaction,
\* or raised (expired blockhash, timeout).
ConfirmSettles(c) ==
    /\ calls[c].pc = "confirm"
    /\ \/ /\ txStatus[c] \in {"ok", "err"}
          /\ calls' = [calls EXCEPT ![c] = AfterConfirm(calls[c], txStatus[c])]
       \/ Raises(c)
    /\ UNCHANGED <<accounts, txStatus, Harness>>

\* Faulty variant: one attempt fewer.
FetchRetriesTwo == 3 - 1
\* Faulty variant: one attempt more.
FetchRetriesFour == 3 + 1
\* Line 160.
FetchRetries == 3

Fetched(k, outcome, value) ==
    [k EXCEPT !.fetched = Append(@, [outcome |-> outcome, value |-> value])]

\* Faulty variant: a call that obtained no state fails.
LoopTestFailing(k) ==
    IF k.retries > 0 /\ k.game = Null
    THEN [Called(k, "fetchGame") EXCEPT !.pc = "fetch"]
    ELSE IF k.game = Null
         THEN Caught(k, [poker |-> FALSE, code |-> NoError,
                         message |-> "Game account not found", logs |-> <<>>,
                         cause |-> Undefined])
         ELSE Returned(k)
\* Line 161 and lines 171-179: the loop test; either the next fetch attempt
\* starts (line 163) or the success result is returned.
LoopTest(k) ==
    IF k.retries > 0 /\ k.game = Null
    THEN [Called(k, "fetchGame") EXCEPT !.pc = "fetch"]
    ELSE Returned(k)

\* Line 155 settles; lines 159-163.
PropagationElapses(c) ==
    /\ calls[c].pc = "propagate"
    /\ calls' = [calls EXCEPT ![c] =
          LoopTest([calls[c] EXCEPT !.game = Null, !.retries = FetchRetries])]
    /\ UNCHANGED <<accounts, txStatus, Harness>>

\* Faulty variant: the fetched state is dropped from the result.
FetchResolvedDropped(k, g) ==
    IF g # Null
    THEN Returned(Fetched(k, "state", g))
    ELSE LoopTest([Fetched(k, "null", Null) EXCEPT !.retries = @ - 1])
\* Lines 163-164 and 169: fetchGame resolved with g, a state or null.
FetchResolved(k, g) ==
    IF g # Null
    THEN Returned([Fetched(k, "state", g) EXCEPT !.game = g])
    ELSE LoopTest([Fetched(k, "null", Null) EXCEPT !.game = Null,
                                                   !.retries = @ - 1])

\* Faulty variant: the pause after a failed attempt is a promise that is never
\* resolved.
FetchRaisedNeverResumes(k) ==
    [Called(Fetched(k, "raised", Null), "setTimeout") EXCEPT !.pc = "hung"]
\* Faulty variant: a failed fetch attempt sends the transaction again.
FetchRaisedResubmit(k) ==
    [Called(Called(Fetched(k, "raised", Null), "sendRawTransaction"), "setTimeout")
        EXCEPT !.pc = "retryDelay"]
\* Lines 165-167: fetchGame raised; pause before the next attempt.
FetchRaised(k) ==
    [Called(Fetched(k, "raised", Null), "setTimeout") EXCEPT !.pc = "retryDelay"]

\* Line 163 settles.  The account can be read only when the ledger holds it;
\* until it has propagated the fetch finds nothing or raises.
FetchSettles(c) ==
    /\ calls[c].pc = "fetch"
    /\ LET k == calls[c] IN
       \/ \E a \in AccountAt(k.gamePDA) :
             calls' = [calls EXCEPT ![c] = FetchResolved(k, a.data)]
       \/ calls' = [calls EXCEPT ![c] = FetchResolved(k, Null)]
       \/ calls' = [calls EXCEPT ![c] = FetchRaised(k)]
    /\ UNCHANGED <<accounts, txStatus, Harness>>

\* Line 167 settles; line 169 and the loop test.
RetryDelayElapses(c) ==
    /\ calls[c].pc = "retryDelay"
    /\ calls' = [calls EXCEPT ![c] =
          LoopTest([calls[c] EXCEPT !.retries = @ - 1])]
    /\ UNCHANGED <<accounts, txStatus, Harness>>

(***************************************************************************)
(* The read path: gameExists (initialize.ts 323-335) and fetchGame         *)
(* (344-356), each one asynchronous task with a single await.              *)
(***************************************************************************)
Readers == {1, 2}

IdleRead ==
    [pc |-> "idle", op |-> "none", authority |-> Undefined, gameId |-> Undefined,
     gamePDA |-> Undefined, attempts |-> 0, response |-> "none",
     exists |-> FALSE, game |-> Undefined]

ReadGameIds == {Num(g) : g \in 0..MaxGameId} \cup {Bn(g) : g \in 1..MaxGameId}

\* The accounts a ledger may hold when a read-path call runs.
PossibleAccounts ==
    { [address |-> deriveGamePDA(a, g),
       data |-> [args |-> InstructionArgs(DefaultsOnly(Num(g))), authority |-> a]] :
        a \in Authorities, g \in 1..MaxGameId }

\* Lines 328-330 and 349-351: derive the address, start the one request.
ReadStarted(k, op, authority, gameId) ==
    [k EXCEPT !.pc = "waiting", !.op = op, !.authority = authority,
              !.gameId = gameId,
              !.gamePDA = deriveGamePDA(authority, ensureBN(gameId)),
              !.attempts = @ + 1]

InvokeGameExists(r) ==
    /\ reads[r].pc = "idle"
    /\ \E a \in Authorities, g \in ReadGameIds :
          reads' = [reads EXCEPT ![r] = ReadStarted(@, "gameExists", a, g)]
    /\ UNCHANGED <<calls, accounts, txStatus, vparams, vresult, vwarned>>

InvokeFetchGame(r) ==
    /\ reads[r].pc = "idle"
    /\ \E a \in Authorities, g \in ReadGameIds :
          reads' = [reads EXCEPT ![r] = ReadStarted(@, "fetchGame", a, g)]
    /\ UNCHANGED <<calls, accounts, txStatus, vparams, vresult, vwarned>>

\* Faulty variant: an existence check that errors answers true.
GameExistsCaughtTrue == TRUE
\* Lines 332-334: catch (error) { return false }.
GameExistsCaught == FALSE

\* Line 331: return account !== null.
GameExistsReturn(account) == account # Null

\* Faulty variant: a fetch that errors is tried once more before giving up.
FetchGameCaughtRetry(k) ==
    IF k.attempts < 2
    THEN [k EXCEPT !.response = "raised", !.attempts = @ + 1]
    ELSE [k EXCEPT !.pc = "done", !.response = "raised", !.game = Null]
\* Lines 352-355: catch (error) { console.error(...); return null }.
FetchGameCaught(k) ==
    [k EXCEPT !.pc = "done", !.response = "raised", !.game = Null]

\* Line 330 settles: ProgramClient.getAccount resolved with the account data
\* or with null, or raised.
GetAccountSettles(r) ==
    /\ reads[r].pc = "waiting"
    /\ reads[r].op = "gameExists"
    /\ LET k == reads[r] IN
       \/ \E a \in AccountAt(k.gamePDA) :
             reads' = [reads EXCEPT ![r] =
                 [k EXCEPT !.pc = "done", !.response = "data",
                           !.exists = GameExistsReturn(a.data)]]
       \/ reads' = [reads EXCEPT ![r] =
              [k EXCEPT !.pc = "done", !.response = "null",
                        !.exists = GameExistsReturn(Null)]]
       \/ reads' = [reads EXCEPT ![r] =
              [k EXCEPT !.pc = "done", !.response = "raised",
                        !.exists = GameExistsCaught]]
    /\ UNCHANGED <<calls, accounts, txStatus, vparams, vresult, vwarned>>

\* Line 351 settles: ProgramClient.fetchGame resolved with the game state or
\* with null, or raised.
FetchGameSettles(r) ==
    /\ reads[r].pc = "waiting"
    /\ reads[r].op = "fetchGame"
    /\ LET k == reads[r] IN
       \/ \E a \in AccountAt(k.gamePDA) :
             reads' = [reads EXCEPT ![r] =
                 [k EXCEPT !.pc = "done", !.response = "data", !.game = a.data]]
       \/ reads' = [reads EXCEPT ![r] =
              [k EXCEPT !.pc = "done", !.response = "null", !.game = Null]]
       \/ reads' = [reads EXCEPT ![r] = FetchGameCaught(k)]
    /\ UNCHANGED <<calls, accounts, txStatus, vparams, vresult, vwarned>>

(***************************************************************************)
(* The validator on its own, over a wide range of configurations.          *)
(***************************************************************************)
MaxBlind == 3

NotValidated == [valid |-> FALSE, error |-> "<not validated>"]

GameIdInputs == {Undefined, Num(-1), Num(0), Num(1), Bn(0), Bn(1)}
BlindInputs ==
    {Undefined} \cup
    {Num(v) : v \in (-1..MaxBlind) \cup {DEFAULT_SMALL_BLIND, DEFAULT_BIG_BLIND}}
BuyInInputs ==
    {Undefined} \cup
    {Num(v) : v \in {-1, 0}
        \cup {b * MIN_BUY_IN_BB_MULTIPLIER + d : b \in 1..MaxBlind, d \in -1..1}
        \cup {DEFAULT_MIN_BUY_IN - 1, DEFAULT_MIN_BUY_IN,
              DEFAULT_MAX_BUY_IN, DEFAULT_MAX_BUY_IN + 1}}
PlayersInputs ==
    {Undefined} \cup
    {Num(v) : v \in {MIN_PLAYERS - 1, MIN_PLAYERS, MAX_PLAYERS, MAX_PLAYERS + 1}}

\* validateGameParams(vparams) is called and returns.
Validate ==
    /\ vresult = NotValidated
    /\ vresult' = validateGameParams(vparams)
    /\ vwarned' = ValidateWarns(vparams)
    /\ UNCHANGED <<calls, accounts, txStatus, vparams, reads>>

(***************************************************************************)
(* Specifications.                                                         *)
(***************************************************************************)
InitCalls ==
    /\ calls = [c \in Calls |-> IdleCall]
    /\ accounts = {}
    /\ txStatus = [c \in Calls |-> "none"]

Init ==
    /\ InitCalls
    /\ vparams = DefaultsOnly(Num(1))
    /\ vresult = NotValidated
    /\ vwarned = FALSE
    /\ reads = [r \in Readers |-> IdleRead]

Next ==
    \E c \in Calls :
        \/ Invoke(c)
        \/ BlockhashSettles(c)
        \/ InstructionSettles(c)
        \/ ImportSettles(c)
        \/ SignSettles(c)
        \/ SendSettles(c)
        \/ Land(c)
        \/ ConfirmSettles(c)
        \/ PropagationElapses(c)
        \/ FetchSettles(c)
        \/ RetryDelayElapses(c)

Spec == Init /\ [][Next]_vars

\* The awaited operation of call c settles and the call runs on.
Settles(c) ==
    \/ BlockhashSettles(c)
    \/ InstructionSettles(c)
    \/ ImportSettles(c)
    \/ SignSettles(c)
    \/ SendSettles(c)
    \/ ConfirmSettles(c)
    \/ PropagationElapses(c)
    \/ FetchSettles(c)
    \/ RetryDelayElapses(c)

\* The calls of the liveness specification: one wallet, a rejected
\* configuration and two accepted ones for the same address.
LiveParams ==
    { DefaultsOnly(Num(0)), DefaultsOnly(Num(1)),
      Config(Bn(1), Num(1), Num(2), Num(100), Num(200), Num(2)) }

InvokeLive(c) == InvokeWith(c, LiveParams, {"alice"})

NextLive == \E c \in Calls : InvokeLive(c) \/ Land(c) \/ Settles(c)

\* Every awaited operation eventually settles, by resolving or by raising; a
\* caller need not ever call, and a submitted transaction need not ever be
\* processed by the ledger.
SpecLive == Init /\ [][NextLive]_vars /\ \A c \in Calls : WF_vars(Settles(c))

(***************************************************************************)
(* One call of initializeGame over a wide range of configurations, with    *)
(* fields omitted, given as numbers and given as BNs.                      *)
(***************************************************************************)
EncodeGameIds == {Num(0), Num(1), Bn(MaxGameId)}
EncodeBlinds == {Undefined, Num(0), Bn(0), Num(1), Bn(2)}
EncodeBuyIns == {Undefined, Num(0), Bn(0), Num(100), Bn(1000), Num(2000)}
EncodePlayers == {Undefined, Num(0), Num(MIN_PLAYERS), Num(MAX_PLAYERS + 1)}

InitEncode ==
    /\ InitCalls
    /\ \E g \in EncodeGameIds, sb \in EncodeBlinds, bb \in EncodeBlinds,
          mn \in EncodeBuyIns, mx \in EncodeBuyIns, mp \in EncodePlayers :
            vparams = Config(g, sb, bb, mn, mx, mp)
    /\ vresult = NotValidated
    /\ vwarned = FALSE
    /\ reads = [r \in Readers |-> IdleRead]

\* The caller passes the configuration under test.
InvokeEncode == InvokeWith(1, {vparams}, {"alice"})

NextEncode == InvokeEncode \/ Land(1) \/ Settles(1)

SpecEncode == InitEncode /\ [][NextEncode]_vars

InitValidate ==
    /\ InitCalls
    /\ \E g \in GameIdInputs, sb \in BlindInputs, bb \in BlindInputs,
          mn \in BuyInInputs, mx \in BuyInInputs, mp \in PlayersInputs :
            vparams = Config(g, sb, bb, mn, mx, mp)
    /\ vresult = NotValidated
    /\ vwarned = FALSE
    /\ reads = [r \in Readers |-> IdleRead]

NextValidate == Validate

SpecValidate == InitValidate /\ [][NextValidate]_vars

InitRead ==
    /\ calls = [c \in Calls |-> IdleCall]
    /\ accounts \in SUBSET PossibleAccounts
    /\ txStatus = [c \in Calls |-> "none"]
    /\ vparams = DefaultsOnly(Num(1))
    /\ vresult = NotValidated
    /\ vwarned = FALSE
    /\ reads = [r \in Readers |-> IdleRead]

NextRead ==
    \E r \in Readers :
        \/ InvokeGameExists(r)
        \/ InvokeFetchGame(r)
        \/ GetAccountSettles(r)
        \/ FetchGameSettles(r)

SpecRead == InitRead /\ [][NextRead]_vars

(***************************************************************************)
(* Properties of initializeGame, checked under Spec.                       *)
(***************************************************************************)
Started(c) == calls[c].pc # "idle"
Done(c) == calls[c].pc = "done"
Rejected(p) == ~validateGameParams(p).valid
HasRaised(c) == calls[c].raised # Undefined
StateFetched(k) == \E i \in 1..Len(k.fetched) : k.fetched[i].outcome = "state"
HasCalled(k, op) == \E i \in 1..Len(k.ops) : k.ops[i] = op

\* C1: a call whose parameters validateGameParams rejects returns
\* success = false with the error InvalidGameConfig whose message is the
\* validation reason, and has performed no network or wallet operation.
C1_RejectedWithoutNetwork ==
    \A c \in Calls :
        (Started(c) /\ Rejected(calls[c].params)) =>
            /\ Done(c)
            /\ calls[c].result.success = FALSE
            /\ calls[c].result.error.code = "InvalidGameConfig"
            /\ calls[c].result.error.message
                   = validateGameParams(calls[c].params).error
            /\ calls[c].ops = <<>>
            /\ txStatus[c] = "none"

C1_Witness ==
    \E c \in Calls :
        /\ Done(c)
        /\ Rejected(calls[c].params)
        /\ calls[c].result.error.message = "Big blind must be greater than small blind"
        /\ calls[c].ops = <<>>

\* C2: no exception escapes initializeGame; when a step after validation
\* raises, the call has returned success = false with an error that wraps
\* the raised one: it keeps the raised error as its cause and carries its
\* message (a fixed text when the raised message is empty).
C2_NeverRaises ==
    \A c \in Calls :
        /\ calls[c].pc # "threw"
        /\ (HasRaised(c) /\ ~calls[c].raised.poker) =>
              /\ Done(c)
              /\ calls[c].result.success = FALSE
              /\ calls[c].result.error.poker
              /\ calls[c].result.error.cause = calls[c].raised
              /\ calls[c].result.error.message =
                    IF calls[c].raised.message # "" THEN calls[c].raised.message
                    ELSE "Failed to initialize game"

C2_Witness ==
    \E c \in Calls :
        /\ Done(c)
        /\ HasRaised(c)
        /\ ~calls[c].raised.poker
        /\ HasCalled(calls[c], "confirmTransaction")
        /\ calls[c].result.success = FALSE
        /\ calls[c].result.error.message = "Network request failed"

\* C3: of two concurrent calls with the same (authority, gameId) that both submitted a
\* transaction, at most one returns success = true.
C3_AtMostOneSucceeds ==
    \A c1, c2 \in Calls :
        (/\ c1 # c2
         /\ c2 \in calls[c1].overlaps
         /\ Done(c1) /\ Done(c2)
         /\ txStatus[c1] # "none" /\ txStatus[c2] # "none"
         /\ calls[c1].wallet = calls[c2].wallet
         /\ ensureBN(calls[c1].params.gameId) = ensureBN(calls[c2].params.gameId))
        => ~(calls[c1].result.success /\ calls[c2].result.success)

\* C4: when a fetch attempt returned a state, the call returns
\* success = true with exactly that state as its game; and a call does not
\* return without a state before the third attempt has been made, so a fetch
\* that raises twice and then returns the state yields that state.
C4_FetchedStateReturned ==
    \A c \in Calls :
        LET k == calls[c] IN
        /\ (Done(c) /\ StateFetched(k)) =>
              /\ k.result.success
              /\ k.fetched[Len(k.fetched)].outcome = "state"
              /\ k.result.game = k.fetched[Len(k.fetched)].value
        /\ (Done(c) /\ k.fetched # <<>> /\ ~StateFetched(k)) =>
              Len(k.fetched) = 3

C4_Witness ==
    \E c \in Calls :
        LET k == calls[c] IN
        /\ Done(c)
        /\ Len(k.fetched) = 3
        /\ k.fetched[1].outcome = "raised"
        /\ k.fetched[2].outcome = "raised"
        /\ k.fetched[3].outcome = "state"
        /\ k.result.success
        /\ k.result.game = k.fetched[3].value
        /\ k.result.game.args.gameId = ensureBN(k.params.gameId)

\* C5: once the confirmation has completed the call cannot fail: it returns
\* success = true with the signature, the derived address and the gameId,
\* and with no game state when no fetch attempt returned one.
C5_SuccessAfterConfirmation ==
    \A c \in Calls :
        LET k == calls[c] IN
        HasCalled(k, "deriveGamePDA") =>
            /\ k.raised = Undefined
            /\ k.pc # "threw"
            /\ Done(c) =>
                  /\ k.result.success
                  /\ k.result.signature = SigOf(c)
                  /\ k.result.gamePDA = deriveGamePDA(k.wallet, ensureBN(k.params.gameId))
                  /\ k.result.gameId = ensureBN(k.params.gameId)
                  /\ ~StateFetched(k) => k.result.game = Null

C5_Witness ==
    \E c \in Calls :
        LET k == calls[c] IN
        /\ Done(c)
        /\ Len(k.fetched) = 3
        /\ \A i \in 1..3 : k.fetched[i].outcome = "raised"
        /\ k.result.success
        /\ k.result.game = Null

\* C6: a failure result with the code InvalidGameConfig comes only from a
\* validation failure, so the call has performed no network or wallet
\* operation.
C6_ConfigErrorOnlyFromValidation ==
    \A c \in Calls :
        (/\ Done(c)
         /\ ~calls[c].result.success
         /\ calls[c].result.error.code = "InvalidGameConfig")
        => (Rejected(calls[c].params) /\ calls[c].ops = <<>>)

\* The address call c targets, once it has started.
AddressOf(c) == deriveGamePDA(calls[c].wallet, ensureBN(calls[c].params.gameId))

\* No other call that has started targets the address of call c.
AloneAtAddress(c) ==
    \A d \in Calls \ {c} : Started(d) => AddressOf(d) # AddressOf(c)

\* A step that changes the local state of one call changes that of no other.
StepLocal ==
    \A c, d \in Calls : (c # d /\ calls'[c] # calls[c]) => calls'[d] = calls[d]

\* What call c sees of the ledger is what it would see running alone: its
\* transaction does not fail on the ledger and every state it fetches is the
\* account its own instruction created.
OwnLedgerView(c) ==
    LET k == calls[c] IN
    /\ txStatus[c] # "err"
    /\ \A i \in 1..Len(k.fetched) :
          k.fetched[i].outcome = "state" =>
              /\ k.fetched[i].value = k.instruction
              /\ txStatus[c] = "ok"

\* C12: calls with different gameIds (different derived addresses) proceed
\* independently: every step changes the local state of one call only, and
\* a call whose address no other call targets gets from the ledger what it
\* would get running alone.
C12_IndependentCalls ==
    /\ [](\A c \in Calls : (Started(c) /\ AloneAtAddress(c)) => OwnLedgerView(c))
    /\ [][StepLocal]_vars

C12_Witness ==
    \E c, d \in Calls :
        /\ c # d
        /\ d \in calls[c].overlaps
        /\ calls[c].wallet = calls[d].wallet
        /\ ensureBN(calls[c].params.gameId) # ensureBN(calls[d].params.gameId)
        /\ Done(c) /\ Done(d)
        /\ calls[c].result.success /\ calls[d].result.success
        /\ calls[c].result.game = calls[c].instruction
        /\ calls[d].result.game = calls[d].instruction
        /\ calls[c].result.game # calls[d].result.game

\* The operations of one call up to the first fetch, in the order of the
\* steps Building, Signing, Submitting, Confirming, DerivingAddress,
\* AwaitingPropagation.
StepOrder ==
    <<"getLatestBlockhash", "instruction", "import", "signTransaction",
      "sendRawTransaction", "confirmTransaction", "deriveGamePDA", "setTimeout">>

\* The operation a suspended call is waiting for.
AwaitedOp(pc) ==
    CASE pc = "blockhash" -> "getLatestBlockhash"
      [] pc = "instruction" -> "instruction"
      [] pc = "import" -> "import"
      [] pc = "sign" -> "signTransaction"
      [] pc = "send" -> "sendRawTransaction"
      [] pc = "confirm" -> "confirmTransaction"
      [] pc = "propagate" -> "setTimeout"
      [] pc = "fetch" -> "fetchGame"
      [] pc = "retryDelay" -> "setTimeout"
      [] OTHER -> "none"

\* C13: the operations of a call occur in the order blockhash fetch,
\* instruction, signing, submission, confirmation, address derivation,
\* propagation delay, fetch attempts; the call waits for the operation it
\* started last; nothing is submitted before the wallet signed, confirmation
\* is awaited only after the submission returned, and no fetch is attempted
\* before the confirmation completed.
C13_StepsInOrder ==
    \A c \in Calls :
        LET k == calls[c]
            n == Len(k.ops)
        IN
        /\ \A i \in 1..n :
              IF i <= Len(StepOrder) THEN k.ops[i] = StepOrder[i]
              ELSE \/ k.ops[i] = "fetchGame"
                   \/ k.ops[i] = "setTimeout" /\ k.ops[i - 1] = "fetchGame"
        /\ k.pc \notin {"idle", "done"} =>
              (n > 0 /\ k.ops[n] = AwaitedOp(k.pc))
        /\ HasCalled(k, "sendRawTransaction") => k.transaction # Undefined
        /\ HasCalled(k, "confirmTransaction") => txStatus[c] # "none"
        /\ HasCalled(k, "fetchGame") =>
              (txStatus[c] \in {"ok", "err"} /\ k.gamePDA # Undefined)
        /\ (Done(c) /\ k.result.success) => HasCalled(k, "fetchGame")

C13_Witness ==
    \E c \in Calls :
        /\ Done(c)
        /\ calls[c].result.success
        /\ calls[c].ops = StepOrder \o <<"fetchGame">>

\* The number of fetch attempts call k has started.
FetchAttempts(k) == Cardinality({i \in 1..Len(k.ops) : k.ops[i] = "fetchGame"})

\* C14: a call attempts the account fetch at most 3 times, starts an attempt
\* only while it holds no state, and makes no attempt after one that
\* returned a state.
C14_FetchBounded ==
    \A c \in Calls :
        LET k == calls[c] IN
        /\ FetchAttempts(k) <= 3
        /\ Len(k.fetched) <= FetchAttempts(k)
        /\ FetchAttempts(k) <= Len(k.fetched) + 1
        /\ \A i \in 1..Len(k.fetched) :
              k.fetched[i].outcome = "state" => i = Len(k.fetched)
        /\ k.pc \in {"fetch", "retryDelay"} =>
              (~StateFetched(k) /\ k.game = Null)
        /\ StateFetched(k) => FetchAttempts(k) = Len(k.fetched)

C14_Witness ==
    \E c \in Calls :
        LET k == calls[c] IN
        /\ Done(c)
        /\ FetchAttempts(k) = 3
        /\ k.fetched[1].outcome = "null"
        /\ k.fetched[2].outcome = "raised"
        /\ k.fetched[3].outcome = "null"
        /\ k.retries = 0

\* C15, checked under SpecLive: every call that has started eventually
\* returns, with a success or a failure result.
C15_EventuallyReturns ==
    \A c \in Calls :
        Started(c) ~> (Done(c) /\ calls[c].result.success \in BOOLEAN)

C15_Witness ==
    \E c \in Calls :
        /\ Done(c)
        /\ calls[c].result.success
        /\ Len(calls[c].fetched) = 3
        /\ calls[c].fetched[3].outcome = "raised"
        /\ txStatus[c] = "err"

\* The number of times call k has sent a transaction.
Submissions(k) ==
    Cardinality({i \in 1..Len(k.ops) : k.ops[i] = "sendRawTransaction"})

\* C16: a call sends at most one transaction, whatever the fetch attempts
\* and the failure path do, and the ledger holds a transaction of the call
\* only if the call sent one; a call that failed before the submission step
\* has sent none.
C16_AtMostOneSubmission ==
    \A c \in Calls :
        LET k == calls[c] IN
        /\ Submissions(k) <= 1
        /\ txStatus[c] # "none" => Submissions(k) = 1
        /\ (Done(c) /\ ~k.result.success /\ ~HasCalled(k, "signTransaction")) =>
              (Submissions(k) = 0 /\ txStatus[c] = "none")
        /\ (Done(c) /\ ~k.result.success
                /\ k.ops # <<>> /\ k.ops[Len(k.ops)] = "signTransaction") =>
              (Submissions(k) = 0 /\ txStatus[c] = "none")

C16_Witness ==
    \E c, d \in Calls :
        /\ Done(c)
        /\ calls[c].result.success
        /\ FetchAttempts(calls[c]) = 3
        /\ Submissions(calls[c]) = 1
        /\ Done(d)
        /\ ~calls[d].result.success
        /\ HasCalled(calls[d], "signTransaction")
        /\ Submissions(calls[d]) = 0

\* C17: a returned result is a success result (success = true, the
\* signature the submission returned, the derived address, the gameId, no
\* error) or a failure result (success = false, the empty signature, an
\* error, no address, gameId or game state), the latter also when the call
\* fails after its transaction was submitted.
C17_ResultShapes ==
    \A c \in Calls :
        LET k == calls[c]
            r == calls[c].result
        IN
        /\ r.returned <=> Done(c)
        /\ Done(c) =>
              IF r.success
              THEN /\ r.signature = SigOf(c)
                   /\ txStatus[c] # "none"
                   /\ r.gamePDA = deriveGamePDA(k.wallet, ensureBN(k.params.gameId))
                   /\ r.gameId = ensureBN(k.params.gameId)
                   /\ r.error = Undefined
                   /\ k.raised = Undefined
              ELSE /\ r.signature = EmptySignature
                   /\ r.error # Undefined
                   /\ r.error.poker
                   /\ r.gamePDA = Undefined
                   /\ r.gameId = Undefined
                   /\ r.game = Undefined

C17_Witness ==
    \E c \in Calls :
        /\ Done(c)
        /\ ~calls[c].result.success
        /\ txStatus[c] = "ok"
        /\ calls[c].tx = SigOf(c)
        /\ calls[c].result.signature = EmptySignature

(***************************************************************************)
(* Properties of the instruction, checked under SpecEncode.                *)
(***************************************************************************)
\* An optional field is encoded as supplied: absent when omitted, its value
\* when given.
EncodedAsSupplied(supplied, encoded) ==
    IF supplied = Undefined THEN encoded = Null
    ELSE encoded # Null /\ encoded.val = supplied.val

\* C18: the instruction of a call whose configuration passed validation
\* encodes every optional field as supplied, and the gameId it encodes is
\* the one the result's address is derived from and the one the result
\* echoes.
C18_InstructionAsSupplied ==
    \A c \in Calls :
        LET k == calls[c]
            p == calls[c].params
        IN
        HasCalled(k, "instruction") =>
            /\ validateGameParams(p).valid
            /\ EncodedAsSupplied(p.smallBlind, k.txBuilder.args.smallBlind)
            /\ EncodedAsSupplied(p.bigBlind, k.txBuilder.args.bigBlind)
            /\ EncodedAsSupplied(p.minBuyIn, k.txBuilder.args.minBuyIn)
            /\ EncodedAsSupplied(p.maxBuyIn, k.txBuilder.args.maxBuyIn)
            /\ EncodedAsSupplied(p.maxPlayers, k.txBuilder.args.maxPlayers)
            /\ k.txBuilder.args.gameId = p.gameId.val
            /\ HasCalled(k, "signTransaction") =>
                  k.transaction.instruction = k.txBuilder
            /\ (Done(c) /\ k.result.success) =>
                  /\ k.result.gameId = k.txBuilder.args.gameId
                  /\ k.result.gamePDA =
                        deriveGamePDA(k.wallet, k.txBuilder.args.gameId)
                  /\ \A a \in accounts :
                        a.data = k.txBuilder => a.address = k.result.gamePDA

C18_Witness ==
    \E c \in Calls :
        LET k == calls[c] IN
        /\ Done(c)
        /\ k.result.success
        /\ k.params = Config(Bn(MaxGameId), Num(1), Undefined, Bn(1000),
                             Undefined, Num(MIN_PLAYERS))
        /\ k.result.game # Null
        /\ k.result.game.args.smallBlind = Bn(1)
        /\ k.result.game.args.bigBlind = Null
        /\ k.result.game.args.minBuyIn = Bn(1000)
        /\ k.result.game.args.maxBuyIn = Null
        /\ k.result.game.args.maxPlayers = Num(MIN_PLAYERS)
        /\ k.result.gameId = MaxGameId

(***************************************************************************)
(* Properties of validateGameParams, checked under SpecValidate.           *)
(***************************************************************************)
Validated == vresult # NotValidated

GameIdPositive(p) == p.gameId # Undefined /\ p.gameId.val > 0

\* The first of the seven rules that p violates, 0 when it violates none.
FirstViolatedRule(p) ==
    IF ~GameIdPositive(p) THEN 1
    ELSE IF ~(SmallBlindOf(p) > 0) THEN 2
    ELSE IF ~(BigBlindOf(p) > SmallBlindOf(p)) THEN 3
    ELSE IF ~(MinBuyInOf(p) > 0) THEN 4
    ELSE IF ~(MaxBuyInOf(p) > MinBuyInOf(p)) THEN 5
    ELSE IF ~(MinBuyInOf(p) >= BigBlindOf(p) * 50) THEN 6
    ELSE IF ~(MIN_PLAYERS <= MaxPlayersOf(p) /\ MaxPlayersOf(p) <= MAX_PLAYERS) THEN 7
    ELSE 0

MultiplierReason(p) ==
    "Minimum buy-in must be at least 50 big blinds ("
        \o ToString(BigBlindOf(p) * 50) \o " chips)"

ReasonsOfRule(i, p) ==
    CASE i = 1 -> {"Game ID is required", "Game ID must be greater than 0"}
      [] i = 2 -> {"Small blind must be greater than 0"}
      [] i = 3 -> {"Big blind must be greater than small blind"}
      [] i = 4 -> {"Minimum buy-in must be greater than 0"}
      [] i = 5 -> {"Maximum buy-in must be greater than minimum buy-in"}
      [] i = 6 -> {MultiplierReason(p)}
      [] i = 7 -> {PlayersMessage}
      [] OTHER -> {NoError}

\* C7: validateGameParams returns valid exactly when the seven rules hold,
\* and otherwise the reason of the first rule violated in the order gameId,
\* smallBlind, blind order, minBuyIn, maxBuyIn, multiplier, maxPlayers;
\* whether the big blind is twice the small blind plays no part.
C7_RulesInOrder ==
    Validated =>
        /\ vresult.valid <=> FirstViolatedRule(vparams) = 0
        /\ vresult.error \in ReasonsOfRule(FirstViolatedRule(vparams), vparams)

C7_Witness ==
    /\ Validated
    /\ vresult.valid
    /\ vwarned
    /\ vparams.smallBlind = Num(2)
    /\ vparams.bigBlind = Num(3)

\* C8 as stated: every configuration with bigBlind <= smallBlind is rejected
\* with the blind-ordering error.
C8_AlwaysBlindOrderError ==
    (Validated /\ BigBlindOf(vparams) <= SmallBlindOf(vparams)) =>
        /\ ~vresult.valid
        /\ vresult.error = "Big blind must be greater than small blind"

\* C8, amended: every configuration with bigBlind <= smallBlind is rejected,
\* and with the blind-ordering error whenever gameId > 0 and smallBlind > 0.
C8_BlindOrderRejected ==
    (Validated /\ BigBlindOf(vparams) <= SmallBlindOf(vparams)) =>
        /\ ~vresult.valid
        /\ (GameIdPositive(vparams) /\ SmallBlindOf(vparams) > 0) =>
              vresult.error = "Big blind must be greater than small blind"

C8_Witness ==
    /\ Validated
    /\ GameIdPositive(vparams)
    /\ vparams.smallBlind = Num(2)
    /\ vparams.bigBlind = Num(2)
    /\ vresult = Invalid("Big blind must be greater than small blind")

\* C9 as stated: every configuration with minBuyIn < bigBlind * 50 is
\* rejected with the message citing the multiplier and the required minimum.
C9_AlwaysMultiplierError ==
    (Validated /\ MinBuyInOf(vparams) < BigBlindOf(vparams) * 50) =>
        /\ ~vresult.valid
        /\ vresult.error = MultiplierReason(vparams)

\* C9, amended: every configuration with minBuyIn < bigBlind * 50 is
\* rejected, and with the message citing the multiplier and the required
\* minimum whenever gameId > 0, smallBlind > 0, bigBlind > smallBlind,
\* minBuyIn > 0 and maxBuyIn > minBuyIn.
C9_MultiplierRejected ==
    (Validated /\ MinBuyInOf(vparams) < BigBlindOf(vparams) * 50) =>
        /\ ~vresult.valid
        /\ (/\ GameIdPositive(vparams)
            /\ SmallBlindOf(vparams) > 0
            /\ BigBlindOf(vparams) > SmallBlindOf(vparams)
            /\ MinBuyInOf(vparams) > 0
            /\ MaxBuyInOf(vparams) > MinBuyInOf(vparams)) =>
              vresult.error = MultiplierReason(vparams)

C9_Witness ==
    /\ Validated
    /\ vparams.bigBlind = Num(2)
    /\ vparams.minBuyIn = Num(99)
    /\ vresult = Invalid("Minimum buy-in must be at least 50 big blinds (100 chips)")

\* C10: every configuration whose maxPlayers lies outside
\* [MIN_PLAYERS, MAX_PLAYERS] is rejected, whatever its other fields.
C10_PlayersOutsideRangeRejected ==
    (/\ Validated
     /\ vparams.maxPlayers # Undefined
     /\ (vparams.maxPlayers.val < MIN_PLAYERS \/ vparams.maxPlayers.val > MAX_PLAYERS))
    => ~vresult.valid

C10_Witness ==
    /\ Validated
    /\ FirstViolatedRule(vparams) = 7
    /\ vparams.maxPlayers = Num(MAX_PLAYERS + 1)
    /\ vresult = Invalid(PlayersMessage)

(***************************************************************************)
(* Properties of the read path, checked under SpecRead.                    *)
(***************************************************************************)
\* C11: gameExists and fetchGame never raise; gameExists answers true only
\* when the check completed and found account data, and false when no
\* account is at the derived address or the check raised; fetchGame makes
\* one fetch attempt and answers null when that attempt raised.
C11_ReadPathNegativeOnError ==
    \A r \in Readers :
        LET k == reads[r] IN
        /\ k.pc \in {"idle", "waiting", "done"}
        /\ k.attempts <= 1
        /\ (k.pc = "done" /\ k.op = "gameExists") =>
              /\ k.exists <=> k.response = "data"
              /\ k.exists => AccountAt(deriveGamePDA(k.authority, k.gameId.val)) # {}
              /\ AccountAt(deriveGamePDA(k.authority, k.gameId.val)) = {} => ~k.exists
              /\ k.response = "raised" => ~k.exists
        /\ (k.pc = "done" /\ k.op = "fetchGame") =>
              /\ k.attempts = 1
              /\ k.response = "raised" => k.game = Null
              /\ k.response = "data" =>
                    k.game \in {a.data : a \in AccountAt(deriveGamePDA(k.authority, k.gameId.val))}

C11_Witness ==
    \E r1, r2 \in Readers :
        /\ reads[r1].pc = "done" /\ reads[r1].op = "gameExists"
        /\ reads[r1].response = "raised" /\ ~reads[r1].exists
        /\ AccountAt(reads[r1].gamePDA) # {}
        /\ reads[r2].pc = "done" /\ reads[r2].op = "fetchGame"
        /\ reads[r2].response = "raised" /\ reads[r2].game = Null
        /\ reads[r2].attempts = 1

====
